---- MODULE Spec2Model ----
(***************************************************************************)
(* Model of gpudirect-tcpxo/topology-scheduler/schedule-daemon.py: the     *)
(* topology-aware gang scheduler that pins gated pods to nodes.            *)
(*                                                                         *)
(* Two specifications share the module:                                    *)
(*   SpecAssign  calculate_pods_assignment, one action per step of its     *)
(*               loops, on inputs drawn from bounded sets;                 *)
(*   Spec        the control loop run_scheduling_loop against an           *)
(*               orchestrator whose pods other actors may change.          *)
(***************************************************************************)
EXTENDS Integers, Sequences, FiniteSets, TLC

\* ------------------------------------------------------------------------
\* Bounds of the model
\* ------------------------------------------------------------------------
MaxNodes == 3
MaxPods == 3

\* ------------------------------------------------------------------------
\* Values
\* ------------------------------------------------------------------------
\* Python's None.
None == "None"

\* Marks an uncaught IndexError raised while a value was computed.
IndexError == -1

PG == "cloud.google.com/gke-placement-group"
CLUSTER == "topology.gke.io/cluster"
RACK == "topology.gke.io/rack"
HOST == "topology.gke.io/host"
ZONE == "zone"

\* Label maps with a full topology 4-tuple (placement-group, cluster, rack,
\* host) and, for some, one more label a node_selector can ask for.
TopoLabels(c, r, h) == (PG :> 0) @@ (CLUSTER :> c) @@ (RACK :> r) @@ (HOST :> h)

\* The topology coordinates nodes are drawn from, in increasing key order.
TopoKeys == << <<0, 0, 0, 0>>, <<0, 0, 0, 1>>, <<0, 0, 1, 0>>, <<0, 1, 0, 0>> >>

\* Free capacity and extra label of a candidate node.
NodeProfiles ==
  { [cpu |-> 2, memory |-> 2, gpu |-> 2, zone |-> "a"],
    [cpu |-> 2, memory |-> 2, gpu |-> 1, zone |-> None],
    [cpu |-> 1, memory |-> 1, gpu |-> 2, zone |-> "b"] }

\* A node_selector that is None or empty: `if node_selector:` is false for
\* both, and can_schedule then checks no label.
NoSelector == << >>

\* Requests and node_selector of a pod.
PodProfiles ==
  { [cpu |-> 1, memory |-> 1, gpu |-> 1, node_selector |-> NoSelector],
    [cpu |-> 1, memory |-> 1, gpu |-> 2, node_selector |-> NoSelector],
    [cpu |-> 2, memory |-> 2, gpu |-> 1, node_selector |-> (ZONE :> "a")] }

\* ------------------------------------------------------------------------
\* Python helpers
\* ------------------------------------------------------------------------
\* seq[k] of a Python list: 0-based, a negative k counts from the end.
PyIndex(seq, k) == IF k >= 0 THEN seq[k + 1] ELSE seq[Len(seq) + k + 1]

\* Lexicographic a <= b on tuples of integers (Python tuple comparison).
RECURSIVE TupleLeqFrom(_, _, _)
TupleLeqFrom(a, b, i) ==
  IF i > Len(a) THEN TRUE
  ELSE IF i > Len(b) THEN FALSE
  ELSE IF a[i] < b[i] THEN TRUE
  ELSE IF a[i] > b[i] THEN FALSE
  ELSE TupleLeqFrom(a, b, i + 1)

TupleLeq(a, b) == TupleLeqFrom(a, b, 1)

\* ------------------------------------------------------------------------
\* node_topology_key, node_topology_distance, can_schedule
\* ------------------------------------------------------------------------
node_topology_key(node) ==
  LET node_labels == node.node_labels IN
  IF /\ PG \in DOMAIN node_labels
     /\ CLUSTER \in DOMAIN node_labels
     /\ RACK \in DOMAIN node_labels
     /\ HOST \in DOMAIN node_labels
  THEN << node_labels[PG], node_labels[CLUSTER],
          node_labels[RACK], node_labels[HOST] >>
  ELSE << >>

\* The loop of node_topology_distance from coordinate i on (1-based), with
\* the value result has at that iteration.
RECURSIVE distance_from(_, _, _, _)
distance_from(node1_key, node2_key, i, result) ==
  IF i > Len(node1_key) THEN 0
  ELSE IF i > Len(node2_key) THEN IndexError
  ELSE IF node1_key[i] # node2_key[i] THEN result
  ELSE distance_from(node1_key, node2_key, i + 1, result \div 100)

\* node_topology_distance with result starting at 10000.
node_topology_distance_from_10000(node1, node2) ==
  distance_from(node_topology_key(node1), node_topology_key(node2), 1, 10000)

\* result /= 100 is a float division in the source; the values it takes
\* (10000.0, 100.0, 1.0) are whole numbers, equal to the integers here.
node_topology_distance(node1, node2) ==
  distance_from(node_topology_key(node1), node_topology_key(node2), 1, 1000000)

\* can_schedule without the comparison of the gpu request.
can_schedule_no_gpu(node, pod) ==
  LET node_selector == pod.node_selector
      node_labels == node.node_labels
  IN /\ \A key \in DOMAIN node_selector :
          /\ key \in DOMAIN node_labels
          /\ node_labels[key] = node_selector[key]
     /\ node.cpu >= pod.cpu
     /\ node.memory >= pod.memory

can_schedule(node, pod) ==
  LET node_selector == pod.node_selector
      node_labels == node.node_labels
  IN /\ \A key \in DOMAIN node_selector :
          /\ key \in DOMAIN node_labels
          /\ node_labels[key] = node_selector[key]
     /\ node.cpu >= pod.cpu
     /\ node.memory >= pod.memory
     /\ node.gpu >= pod.gpu

\* ------------------------------------------------------------------------
\* calculate_pods_assignment
\* ------------------------------------------------------------------------
\* The locals of calculate_pods_assignment. assignment holds 0-based node
\* indices as in the source; i is the 0-based pod position of the inner loop.
\* pc: "outer"  top of `while True`
\*     "inner"  test of `while i >= 0 and all_ok`
\*     "check"  after the inner loop
\*     "done"   returned best_assignment
\*     "IndexError" an uncaught IndexError left the function
calc_init(sorted_pods) ==
  [ assignment |-> [k \in 1..Len(sorted_pods) |-> k - Len(sorted_pods) - 1],
    best_assignment |-> << >>,
    minimum_distance |-> 1000000000,
    i |-> 0,
    all_ok |-> TRUE,
    pc |-> "outer" ]

\* no_room_left comparing against assignment[i + 1] itself.
no_room_left_late(assignment, i) ==
  /\ i < Len(assignment) - 1
  /\ PyIndex(assignment, i) = PyIndex(assignment, i + 1)

\* `elif i < len(assignment) - 1 and assignment[i] == assignment[i + 1] - 1`
no_room_left(assignment, i) ==
  /\ i < Len(assignment) - 1
  /\ PyIndex(assignment, i) = PyIndex(assignment, i + 1) - 1

\* calc_outer that also puts the index vector back to its initial value.
calc_outer_restart(s) ==
  [s EXCEPT !.all_ok = TRUE, !.i = Len(s.assignment) - 1, !.pc = "inner",
            !.assignment = [k \in 1..Len(s.assignment) |->
                              k - Len(s.assignment) - 1]]

\* all_ok = True; i = len(assignment) - 1
calc_outer(s) ==
  [s EXCEPT !.all_ok = TRUE, !.i = Len(s.assignment) - 1, !.pc = "inner"]

\* One evaluation of the inner loop's test and, if it holds, of its body.
calc_inner(s, sorted_nodes, sorted_pods) ==
  IF ~(s.i >= 0 /\ s.all_ok) THEN [s EXCEPT !.pc = "check"]
  ELSE
    LET a == [s.assignment EXCEPT ![s.i + 1] = @ + 1]
        v == a[s.i + 1]
    IN IF v = Len(sorted_nodes)
       THEN [s EXCEPT !.assignment = a, !.pc = "check"]
       ELSE IF v >= 0 /\ can_schedule(PyIndex(sorted_nodes, v),
                                      PyIndex(sorted_pods, s.i))
       THEN [s EXCEPT !.assignment = a, !.i = @ - 1]
       ELSE IF no_room_left(a, s.i)
       THEN [s EXCEPT !.assignment = a, !.all_ok = FALSE]
       ELSE [s EXCEPT !.assignment = a]

\* new_distance of the source for an assignment; IndexError if a call of
\* node_topology_distance raised.
RECURSIVE new_distance_from(_, _, _)
new_distance_from(sorted_nodes, assignment, i) ==
  IF i >= Len(assignment) THEN 0
  ELSE LET d == node_topology_distance(
                  PyIndex(sorted_nodes, PyIndex(assignment, i)),
                  PyIndex(sorted_nodes, PyIndex(assignment, i - 1)))
           rest == new_distance_from(sorted_nodes, assignment, i + 1)
       IN IF d = IndexError \/ rest = IndexError THEN IndexError ELSE d + rest

new_distance(sorted_nodes, assignment) ==
  new_distance_from(sorted_nodes, assignment, 1)

\* The statements after the inner loop.
calc_check(s, sorted_nodes) ==
  IF PyIndex(s.assignment, -1) = Len(sorted_nodes) THEN [s EXCEPT !.pc = "done"]
  ELSE IF ~s.all_ok THEN [s EXCEPT !.pc = "outer"]
  ELSE LET d == new_distance(sorted_nodes, s.assignment) IN
       IF d = IndexError THEN [s EXCEPT !.pc = "IndexError"]
       ELSE IF d < s.minimum_distance
       THEN [s EXCEPT !.best_assignment = s.assignment,
                      !.minimum_distance = d, !.pc = "outer"]
       ELSE [s EXCEPT !.pc = "outer"]

calc_step(s, sorted_nodes, sorted_pods) ==
  CASE s.pc = "outer" -> calc_outer(s)
    [] s.pc = "inner" -> calc_inner(s, sorted_nodes, sorted_pods)
    [] s.pc = "check" -> calc_check(s, sorted_nodes)
    [] OTHER -> s

RECURSIVE calc_run(_, _, _)
calc_run(s, sorted_nodes, sorted_pods) ==
  IF s.pc \in {"done", "IndexError"} THEN s
  ELSE calc_run(calc_step(s, sorted_nodes, sorted_pods), sorted_nodes, sorted_pods)

\* The value returned, or IndexError.
calculate_pods_assignment(sorted_nodes, sorted_pods) ==
  LET s == calc_run(calc_init(sorted_pods), sorted_nodes, sorted_pods)
  IN IF s.pc = "done" THEN s.best_assignment ELSE IndexError

\* ------------------------------------------------------------------------
\* Orchestrator objects as the API client returns them
\* ------------------------------------------------------------------------
\* The client returns None for a list field that is absent or empty
\* (scheduling_gates, tolerations, taints, container_statuses); the model
\* writes that None as the empty sequence.
NoneList == << >>

\* A scheduling gate name, split into the part --gate is matched against and
\* the rest of the name.
GatePrefix == "gke.io/topology-aware-auto-"
GateX == << GatePrefix, "x" >>
GateY == << GatePrefix, "y" >>
OtherGate == << "other/", "gate-y" >>

\* g.name.startswith(prefix)
startswith(name, prefix) == name[1] = prefix

\* ------------------------------------------------------------------------
\* Python list and dict helpers
\* ------------------------------------------------------------------------
Range(seq) == { seq[j] : j \in 1..Len(seq) }

\* d[key] = value on a dict kept as the sequence of its values in insertion
\* order, keyed by the field `name`: a known key keeps its position.
DictPut(d, value) ==
  IF \E j \in 1..Len(d) : d[j].name = value.name
  THEN [j \in 1..Len(d) |-> IF d[j].name = value.name THEN value ELSE d[j]]
  ELSE Append(d, value)

\* Insert the pair x = <<key, value>> into the sequence s of pairs sorted by
\* key, after every pair whose key is not greater, so that equal keys keep
\* their order (sorted() is stable). Keys are tuples of integers.
RECURSIVE InsertSorted(_, _)
InsertSorted(s, x) ==
  IF s = << >> THEN << x >>
  ELSE IF TupleLeq(Head(s)[1], x[1])
  THEN << Head(s) >> \o InsertSorted(Tail(s), x)
  ELSE << x >> \o s

RECURSIVE SortPairs(_)
SortPairs(pairs) ==
  IF pairs = << >> THEN << >>
  ELSE InsertSorted(SortPairs(SubSeq(pairs, 1, Len(pairs) - 1)),
                    pairs[Len(pairs)])

\* sorted(seq, key=...) where keys[j] is the key of seq[j].
SortedBy(seq, keys) ==
  LET sp == SortPairs([j \in 1..Len(seq) |-> << keys[j], seq[j] >>])
  IN [j \in 1..Len(seq) |-> sp[j][2]]

\* ------------------------------------------------------------------------
\* split_pods_based_on_jobs, sort_jobs_by_time, pod_sorting_key
\* ------------------------------------------------------------------------
\* itertools.groupby: a new group starts whenever the key differs from the
\* key of the previous element.
RECURSIVE groupby_job_name(_, _)
groupby_job_name(pods, groups) ==
  IF pods = << >> THEN groups
  ELSE LET pod == Head(pods)
           n == Len(groups)
       IN IF n > 0 /\ groups[n][1].job_name = pod.job_name
          THEN groupby_job_name(Tail(pods),
                                [groups EXCEPT ![n] = Append(@, pod)])
          ELSE groupby_job_name(Tail(pods), Append(groups, << pod >>))

split_pods_based_on_jobs(pods) == groupby_job_name(pods, << >>)

sort_jobs_by_time(job) == job[1].creation_time

\* int(s) for a string of decimal digits, kept as the sequence of its digits.
RECURSIVE int_of(_)
int_of(digits) ==
  IF digits = << >> THEN 0
  ELSE 10 * int_of(SubSeq(digits, 1, Len(digits) - 1)) + digits[Len(digits)]

\* The branch of pod_sorting_key for pods that carry the
\* job-completion-index label: int(pod['index']).
pod_sorting_key(pod) == int_of(pod.index)

\* ------------------------------------------------------------------------
\* find_pod_gates, find_schedulable_pods
\* ------------------------------------------------------------------------
find_pod_gates(pods, prefix) ==
  { g \in UNION { Range(pods[j].scheduling_gates) : j \in 1..Len(pods) } :
      startswith(g, prefix) }

\* Sum of one resource over the requests of a pod's containers.
RECURSIVE SumRequests(_, _)
SumRequests(containers, res) ==
  IF containers = << >> THEN 0
  ELSE Head(containers)[res] + SumRequests(Tail(containers), res)

\* The record find_schedulable_pods builds for a pod.
PodInfo(pod) ==
  [ name |-> pod.name,
    namespace |-> pod.namespace,
    index |-> pod.index,
    cpu |-> SumRequests(pod.containers, "cpu"),
    memory |-> SumRequests(pod.containers, "memory"),
    gpu |-> SumRequests(pod.containers, "gpu"),
    node_selector |-> pod.node_selector,
    tolerations |-> pod.tolerations,
    job_name |-> pod.job_name,
    creation_time |-> pod.creation_timestamp ]

RECURSIVE pods_to_schedule_from(_, _, _)
pods_to_schedule_from(pods, gate_name, acc) ==
  IF pods = << >> THEN acc
  ELSE LET pod == Head(pods) IN
       IF gate_name \in Range(pod.scheduling_gates)
       THEN pods_to_schedule_from(Tail(pods), gate_name,
                                  DictPut(acc, PodInfo(pod)))
       ELSE pods_to_schedule_from(Tail(pods), gate_name, acc)

\* The values of the dict find_schedulable_pods returns, in dict order.
find_schedulable_pods(pods, gate_name) ==
  pods_to_schedule_from(pods, gate_name, << >>)

\* ------------------------------------------------------------------------
\* get_pod_used_resources, get_pods_taint_toleration
\* ------------------------------------------------------------------------
\* Requests of the containers whose status is not terminated, over
\* zip(containers, container_statuses).
RECURSIVE used_from(_, _, _)
used_from(containers, container_statuses, res) ==
  IF containers = << >> \/ container_statuses = << >> THEN 0
  ELSE (IF Head(container_statuses).terminated THEN 0
        ELSE Head(containers)[res])
       + used_from(Tail(containers), Tail(container_statuses), res)

get_pod_used_resources(pod) ==
  [ cpu |-> used_from(pod.containers, pod.container_statuses, "cpu"),
    memory |-> used_from(pod.containers, pod.container_statuses, "memory"),
    gpu |-> used_from(pod.containers, pod.container_statuses, "gpu") ]

\* The loop of get_pods_taint_toleration: ts after the pods, or
\* AssertionError when `assert(ts == tolerations)` fails.
AssertionError == "AssertionError"

RECURSIVE taint_toleration_from(_, _)
taint_toleration_from(pods, ts) ==
  IF pods = << >> THEN [error |-> None, ts |-> ts]
  ELSE LET tolerations == Head(pods).tolerations IN
       IF ts = NoneList THEN taint_toleration_from(Tail(pods), tolerations)
       ELSE IF ts = tolerations THEN taint_toleration_from(Tail(pods), ts)
       ELSE [error |-> AssertionError, ts |-> ts]

get_pods_taint_toleration(pods) == taint_toleration_from(pods, NoneList)

\* ------------------------------------------------------------------------
\* find_schedulable_nodes
\* ------------------------------------------------------------------------
\* tolerated_taint_dict[key]: the last toleration with that key.
tolerated_taint_dict(tolerated_taints, key) ==
  LET js == { j \in 1..Len(tolerated_taints) : tolerated_taints[j].key = key }
  IN tolerated_taints[CHOOSE j \in js : \A l \in js : l <= j]

\* taint_not_tolerated looking at the key of the taint only.
taint_not_tolerated_by_key(taints, tolerated_taints) ==
  \E j \in 1..Len(taints) :
    \A l \in 1..Len(tolerated_taints) : tolerated_taints[l].key # taints[j].key

\* The taint loop: TRUE when it sets skip_node.
taint_not_tolerated(taints, tolerated_taints) ==
  \E j \in 1..Len(taints) :
    LET t == taints[j] IN
    \/ \A l \in 1..Len(tolerated_taints) : tolerated_taints[l].key # t.key
    \/ /\ \E l \in 1..Len(tolerated_taints) : tolerated_taints[l].key = t.key
       /\ LET tol == tolerated_taint_dict(tolerated_taints, t.key)
          IN tol.operator = "Equal" /\ tol.value # t.value

\* any(condition.type == "Ready" and condition.status != "True" ...)
not_ready(conditions) ==
  \E j \in 1..Len(conditions) :
    conditions[j].type = "Ready" /\ conditions[j].status # "True"

\* Requests in use on a node: the pods whose spec.node_name is the node.
RECURSIVE used_on_node(_, _, _)
used_on_node(pods, node_name, res) ==
  IF pods = << >> THEN 0
  ELSE (IF Head(pods).node_name = node_name
        THEN get_pod_used_resources(Head(pods))[res] ELSE 0)
       + used_on_node(Tail(pods), node_name, res)

node_info(node, pods) ==
  [ name |-> node.name,
    cpu |-> node.allocatable["cpu"] - used_on_node(pods, node.name, "cpu"),
    memory |-> node.allocatable["memory"]
                 - used_on_node(pods, node.name, "memory"),
    gpu |-> (IF "nvidia.com/gpu" \in DOMAIN node.allocatable
             THEN node.allocatable["nvidia.com/gpu"] ELSE 0)
              - used_on_node(pods, node.name, "gpu"),
    node_labels |-> node.labels ]

\* The node loop from the remaining nodes on; nodes_info is the dict built
\* so far. A NotReady node leaves the loop (`break`).
RECURSIVE nodes_info_from(_, _, _, _)
nodes_info_from(nodes, pods, tolerated_taints, nodes_info) ==
  IF nodes = << >> THEN nodes_info
  ELSE LET node == Head(nodes) IN
       IF PG \notin DOMAIN node.labels
       THEN nodes_info_from(Tail(nodes), pods, tolerated_taints, nodes_info)
       ELSE IF not_ready(node.conditions) THEN nodes_info
       ELSE IF taint_not_tolerated(node.taints, tolerated_taints)
       THEN nodes_info_from(Tail(nodes), pods, tolerated_taints, nodes_info)
       ELSE nodes_info_from(Tail(nodes), pods, tolerated_taints,
                            DictPut(nodes_info, node_info(node, pods)))

\* The values of the dict find_schedulable_nodes returns, in dict order.
find_schedulable_nodes(nodes, pods, tolerated_taints) ==
  nodes_info_from(nodes, pods, tolerated_taints, << >>)

\* ------------------------------------------------------------------------
\* schedule_pod_on_node
\* ------------------------------------------------------------------------
\* new_gates dropping every gate that has the prefix of gate_name.
new_gates_by_prefix(scheduling_gates, gate_name) ==
  SelectSeq(scheduling_gates, LAMBDA g : ~startswith(g, gate_name[1]))

\* new_gates: the gates of the pod other than gate_name, in their order.
new_gates(scheduling_gates, gate_name) ==
  SelectSeq(scheduling_gates, LAMBDA g : g # gate_name)

\* pod_to_write that sets the affinity and leaves the gate list as it was.
pod_to_write_keeps_gates(pod, node, gate_name) ==
  [pod EXCEPT !.affinity = node.name]

\* The pod object schedule_pod_on_node passes to replace_namespaced_pod.
pod_to_write(pod, node, gate_name) ==
  [pod EXCEPT !.affinity = node.name,
              !.scheduling_gates = new_gates(pod.scheduling_gates, gate_name)]

\* Outcomes of an API call of schedule_pod_on_node.
ApiOutcomes == {"ok", "fails"}

\* schedule_pod_on_node up to replace_namespaced_pod, on the pod object the
\* orchestrator holds, for an outcome of read_namespaced_pod:
\*   "read"         the gate is on the pod that was read: replace comes next
\*   "no_gate"      the gate was no longer on the pod, nothing is written
\*   "ApiException" the read failed, the exception was printed
\*   "TypeError"    scheduling_gates was None: iterating it raised
read_pod_result(pod, gate_name, api) ==
  IF api = "fails" THEN "ApiException"
  ELSE IF pod.scheduling_gates = NoneList THEN "TypeError"
  ELSE IF gate_name \in Range(pod.scheduling_gates) THEN "read"
  ELSE "no_gate"

\* replace_namespaced_pod of schedule_pod_on_node and what follows it, for
\* the pod that was read, the pod the orchestrator holds now and an outcome
\* of the call. The body carries the resourceVersion of the read, and the
\* orchestrator refuses it (409) when the pod has changed since: every
\* change of a pod in the model changes a field, so the objects differ
\* exactly when the versions do. result:
\*   "written"      the pod was replaced
\*   "ApiException" the call failed, the exception was printed
\* pod is the object the orchestrator holds afterwards.
replace_pod_result(read, held, node, gate_name, api) ==
  IF api = "fails" \/ held # read
  THEN [result |-> "ApiException", pod |-> held]
  ELSE [result |-> "written", pod |-> pod_to_write(read, node, gate_name)]

\* ------------------------------------------------------------------------
\* State
\* ------------------------------------------------------------------------
VARIABLES
  sorted_nodes,     \* calculate_pods_assignment / schedule_pod_with_gate
  sorted_pods,      \* calculate_pods_assignment / schedule_pod_with_gate
  calc,             \* locals of calculate_pods_assignment
  cluster_pods,     \* orchestrator: pod name -> pod object
  cluster_nodes,    \* orchestrator: the node objects, in list_node order
  pod_order,        \* orchestrator: pod names in the order a listing returns
  removals,         \* number of gate removals by other actors so far
  pc,               \* position of run_scheduling_loop
  gates,            \* gate names `for g in gates` has still to visit
  gate,             \* schedule_pod_with_gate: gate
  pods,             \* the last list_pods() result
  nodes,            \* schedule_pod_with_gate: nodes
  pods_to_schedule, \* schedule_pod_with_gate: pods_to_schedule.values()
  sorted_jobs,      \* schedule_pod_with_gate: jobs the loop has still to visit
  i,                \* schedule_pod_with_gate: index of the commit loop
  read_pod,         \* schedule_pod_on_node: << pod >> between the read and
                    \* the replace, else empty
  commits,          \* history: calls of schedule_pod_on_node in the current
                    \* run of schedule_pod_with_gate, with their results
  track_ticks,      \* whether the history of the passes is recorded (SpecTicks)
  tick_clean,       \* history: since the current pass of the loop began,
                    \* every schedule_pod_on_node wrote its pod and no other
                    \* actor changed a pod
  last_tick_clean,  \* history: tick_clean of the previous pass, and no other
                    \* actor changed a pod since
  tolerated_taints, \* find_schedulable_nodes: tolerated_taints
  nodes_info,       \* find_schedulable_nodes: nodes_info.values()
  distances         \* node_topology_distance of the pairs of sorted_nodes

assignVars == << sorted_nodes, sorted_pods, calc >>
loopVars == << cluster_pods, cluster_nodes, pod_order, removals, pc, gates,
               gate, pods, nodes, pods_to_schedule, sorted_jobs, i, read_pod,
               commits >>
loopVars_but_pc == << cluster_pods, cluster_nodes, pod_order, removals, gates,
                      gate, pods, nodes, pods_to_schedule, sorted_jobs, i,
                      read_pod, commits >>
tickVars == << track_ticks, tick_clean, last_tick_clean >>
filterVars == << tolerated_taints, nodes_info, distances >>
vars == << sorted_nodes, sorted_pods, calc, cluster_pods, cluster_nodes,
           pod_order, removals, pc, gates, gate, pods, nodes,
           pods_to_schedule, sorted_jobs, i, read_pod, commits, track_ticks,
           tick_clean,
           last_tick_clean, tolerated_taints, nodes_info, distances >>

\* ------------------------------------------------------------------------
\* SpecAssign: calculate_pods_assignment step by step
\* ------------------------------------------------------------------------
\* Node records as find_schedulable_nodes builds them.
NodeInfo(name, key, prof) ==
  [ name |-> name, cpu |-> prof.cpu, memory |-> prof.memory, gpu |-> prof.gpu,
    node_labels |-> IF prof.zone = None
                    THEN TopoLabels(key[2], key[3], key[4])
                    ELSE TopoLabels(key[2], key[3], key[4]) @@ (ZONE :> prof.zone) ]

\* Every list of m candidate nodes in topology order (sorted by
\* node_topology_key, as schedule_pod_with_gate passes them).
SortedNodeLists(m) ==
  { [j \in 1..m |-> NodeInfo(j, TopoKeys[ks[j]], ps[j])] :
      ks \in { f \in [1..m -> 1..Len(TopoKeys)] :
                 \A j \in 1..m - 1 : f[j] <= f[j + 1] },
      ps \in [1..m -> NodeProfiles] }

PodLists(n) == [1..n -> PodProfiles]

AssignInit ==
  /\ \E m \in 0..MaxNodes : sorted_nodes \in SortedNodeLists(m)
  /\ \E n \in 1..MaxPods : sorted_pods \in PodLists(n)
  /\ calc = calc_init(sorted_pods)
  /\ cluster_pods = << >>
  /\ cluster_nodes = << >>
  /\ pod_order = << >>
  /\ removals = 0
  /\ pc = "assign"
  /\ gates = {}
  /\ gate = GateX
  /\ pods = << >>
  /\ nodes = << >>
  /\ pods_to_schedule = << >>
  /\ sorted_jobs = << >>
  /\ i = 0
  /\ read_pod = << >>
  /\ commits = << >>
  /\ track_ticks = FALSE
  /\ tick_clean = TRUE
  /\ last_tick_clean = FALSE
  /\ tolerated_taints = << >>
  /\ nodes_info = << >>
  /\ distances = << >>

CalcOuter ==
  /\ calc.pc = "outer"
  /\ calc' = calc_outer(calc)
  /\ UNCHANGED << sorted_nodes, sorted_pods, loopVars, tickVars, filterVars >>

CalcInner ==
  /\ calc.pc = "inner"
  /\ calc' = calc_inner(calc, sorted_nodes, sorted_pods)
  /\ UNCHANGED << sorted_nodes, sorted_pods, loopVars, tickVars, filterVars >>

CalcCheck ==
  /\ calc.pc = "check"
  /\ calc' = calc_check(calc, sorted_nodes)
  /\ UNCHANGED << sorted_nodes, sorted_pods, loopVars, tickVars, filterVars >>

AssignNext == CalcOuter \/ CalcInner \/ CalcCheck

SpecAssign == AssignInit /\ [][AssignNext]_vars

\* The inputs of SpecAssign whose nodes all have the first topology key: the
\* index vector and the return of calculate_pods_assignment depend on
\* can_schedule only, the keys decide no more than which assignment is kept.
AssignInitOneKey ==
  /\ AssignInit
  /\ \A j \in 1..Len(sorted_nodes) :
       node_topology_key(sorted_nodes[j]) = TopoKeys[1]

\* calculate_pods_assignment runs without blocking: while it has not
\* returned, its next step is taken.
SpecAssignFair ==
  AssignInitOneKey /\ [][AssignNext]_vars /\ WF_vars(AssignNext)

\* ------------------------------------------------------------------------
\* Spec: run_scheduling_loop against the orchestrator
\* ------------------------------------------------------------------------
\* Gate removals by other actors the model follows.
MaxRemovals == 1

PodNames == {"a-0", "a-1", "b-0"}

Permutations3 ==
  { << x, y, z >> : x \in PodNames, y \in PodNames, z \in PodNames }

PodOrders == { o \in Permutations3 : Range(o) = PodNames }

TolerationK1 == [key |-> "k1", operator |-> "Equal", value |-> "v1"]
TolerationK2 == [key |-> "k2", operator |-> "Exists", value |-> None]

\* A pending pod of a job: one container, no status yet, not bound.
GatedPod(name, job_name, index, time, gpu, tolerations, scheduling_gates) ==
  [ name |-> name, namespace |-> "default", job_name |-> job_name,
    index |-> index, creation_timestamp |-> time,
    containers |-> << [cpu |-> 1, memory |-> 1, gpu |-> gpu] >>,
    container_statuses |-> NoneList,
    node_selector |-> NoSelector,
    tolerations |-> tolerations,
    scheduling_gates |-> scheduling_gates,
    node_name |-> None,
    affinity |-> None ]

ReadyNode(name, labels, taints) ==
  [ name |-> name, labels |-> labels, taints |-> taints,
    conditions |-> << [type |-> "Ready", status |-> "True"] >>,
    allocatable |-> ("cpu" :> 4) @@ ("memory" :> 4) @@ ("nvidia.com/gpu" :> 1) ]

\* list_pods(): the pods of every namespace that is not ignored, namespace
\* by namespace. The model has the one namespace "default" and an empty
\* --ignored-namespace.
list_pods ==
  LET all == [j \in 1..Len(pod_order) |-> cluster_pods[pod_order[j]]]
  IN SelectSeq(all, LAMBDA p : p.namespace = "default")

\* The state of the orchestrator and of run_scheduling_loop before its
\* first pass.
LoopInit ==
  /\ \E tA \in 1..2, tB \in 1..2, gpu1 \in 1..2,
        tol1 \in { << TolerationK1 >>, << TolerationK2 >> },
        gatesB \in { << GateX >>, << GateY, GateX >> } :
       cluster_pods =
         [ p \in PodNames |->
             CASE p = "a-0" -> GatedPod(p, "job-a", << 0 >>, tA, 1, << TolerationK1 >>,
                                        << OtherGate, GateX >>)
               [] p = "a-1" -> GatedPod(p, "job-a", << 1 >>, tA, gpu1, tol1, << GateX >>)
               [] p = "b-0" -> GatedPod(p, "job-b", << 0 >>, tB, 1, NoneList, gatesB) ]
  /\ \E taints2 \in { NoneList, << [key |-> "k3", value |-> "v3"] >> } :
       cluster_nodes = << ReadyNode("n1", TopoLabels(0, 0, 0), NoneList),
                          ReadyNode("n2", TopoLabels(0, 0, 1), taints2) >>
  /\ pod_order \in PodOrders
  /\ removals = 0
  /\ pc = "tick"
  /\ gates = {}
  /\ gate = GateX
  /\ pods = << >>
  /\ nodes = << >>
  /\ pods_to_schedule = << >>
  /\ sorted_jobs = << >>
  /\ i = 0
  /\ read_pod = << >>
  /\ commits = << >>
  /\ sorted_nodes = << >>
  /\ sorted_pods = << >>
  /\ calc = calc_init(<< >>)
  /\ tick_clean = TRUE
  /\ last_tick_clean = FALSE
  /\ tolerated_taints = << >>
  /\ nodes_info = << >>
  /\ distances = << >>

Init == LoopInit /\ track_ticks = FALSE

\* `pods = list_pods()` at the top of the loop raises ApiException (listing
\* the namespaces or the pods of a namespace failed): the handler around the
\* loop prints it and run_scheduling_loop returns.
TickListFails ==
  /\ pc = "tick"
  /\ pc' = "exited"
  /\ UNCHANGED << filterVars, tickVars, assignVars, cluster_pods, cluster_nodes, pod_order, removals,
                  gates, gate, pods, nodes, pods_to_schedule, sorted_jobs, i,
                  read_pod, commits >>

\* One pass of the loop body up to the `for g in gates`: list the pods, find
\* the gates; without a gate `continue`, else sleep and enter the for loop.
Tick ==
  /\ pc = "tick"
  /\ pods' = list_pods
  /\ gates' = find_pod_gates(pods', GatePrefix)
  /\ pc' = IF gates' = {} THEN "tick" ELSE "gate"
  /\ IF track_ticks /\ gates' = {}
     THEN last_tick_clean' = tick_clean /\ tick_clean' = TRUE
     ELSE UNCHANGED << tick_clean, last_tick_clean >>
  /\ UNCHANGED track_ticks
  /\ UNCHANGED << filterVars, assignVars, cluster_pods, cluster_nodes, pod_order, removals,
                  gate, nodes, pods_to_schedule, sorted_jobs, i, read_pod,
                  commits >>

\* list_pods() in the for loop (at "gate") or list_node() in
\* schedule_pod_with_gate (at "schedule") raises ApiException.
GateListFails ==
  /\ pc \in {"gate", "schedule"}
  /\ pc' = "exited"
  /\ UNCHANGED << filterVars, tickVars, assignVars, cluster_pods, cluster_nodes, pod_order, removals,
                  gates, gate, pods, nodes, pods_to_schedule, sorted_jobs, i,
                  read_pod, commits >>

\* The jobs of schedule_pod_with_gate in the order of its for loop.
jobs_in_order(to_schedule) ==
  LET jobs == split_pods_based_on_jobs(to_schedule)
  IN SortedBy(jobs, [j \in 1..Len(jobs) |-> << sort_jobs_by_time(jobs[j]) >>])

\* The next g of `for g in gates` (a set: any order): `pods = list_pods()`
\* in the for loop, the call before schedule_pod_with_gate.
ListGatePods ==
  /\ pc = "gate"
  /\ \E g \in gates :
       /\ gate' = g
       /\ gates' = gates \ {g}
  /\ pods' = list_pods
  /\ pc' = "schedule"
  /\ UNCHANGED << filterVars, tickVars, assignVars, cluster_pods, cluster_nodes,
                  pod_order, removals, nodes, pods_to_schedule, sorted_jobs, i,
                  read_pod, commits >>

\* schedule_pod_with_gate(v1, pods, g) up to its loop over the jobs: the
\* gated pods of the listing made before, then `v1.list_node()`.
StartGate ==
  /\ pc = "schedule"
  /\ pods_to_schedule' = find_schedulable_pods(pods, gate)
  /\ nodes' = cluster_nodes
  /\ sorted_jobs' = jobs_in_order(pods_to_schedule')
  /\ commits' = << >>
  /\ pc' = "job"
  /\ UNCHANGED << filterVars, tickVars, assignVars, cluster_pods, cluster_nodes,
                  pod_order, removals, gates, gate, pods, i, read_pod >>

\* plan_job on nodes from whose allocatable gpus the gpus of the pods this
\* run has already pinned to them are deducted.
plan_job_after_commits(job, all_nodes, all_pods) ==
  LET left == [j \in 1..Len(all_nodes) |->
                 [all_nodes[j] EXCEPT !.allocatable["nvidia.com/gpu"] =
                    @ - Cardinality({ c \in 1..Len(commits) :
                                        /\ commits[c].result = "written"
                                        /\ commits[c].node = all_nodes[j].name })]]
      tt == get_pods_taint_toleration(job)
      nodes_to_schedule == find_schedulable_nodes(left, all_pods, tt.ts)
      s_pods == SortedBy(job, [j \in 1..Len(job) |-> << pod_sorting_key(job[j]) >>])
      s_nodes == SortedBy(nodes_to_schedule,
                          [j \in 1..Len(nodes_to_schedule) |->
                             node_topology_key(nodes_to_schedule[j])])
      s == calc_run(calc_init(s_pods), s_nodes, s_pods)
  IN IF tt.error # None
     THEN [error |-> tt.error, sorted_pods |-> << >>, sorted_nodes |-> << >>,
           calc |-> calc_init(<< >>)]
     ELSE [error |-> IF s.pc = "IndexError" THEN "IndexError" ELSE None,
           sorted_pods |-> s_pods, sorted_nodes |-> s_nodes, calc |-> s]

\* What schedule_pod_with_gate computes for a job before it commits.
\* error is None, AssertionError or IndexError.
plan_job(job, all_nodes, all_pods) ==
  LET tt == get_pods_taint_toleration(job)
      nodes_to_schedule == find_schedulable_nodes(all_nodes, all_pods, tt.ts)
      s_pods == SortedBy(job, [j \in 1..Len(job) |-> << pod_sorting_key(job[j]) >>])
      s_nodes == SortedBy(nodes_to_schedule,
                          [j \in 1..Len(nodes_to_schedule) |->
                             node_topology_key(nodes_to_schedule[j])])
      s == calc_run(calc_init(s_pods), s_nodes, s_pods)
  IN IF tt.error # None
     THEN [error |-> tt.error, sorted_pods |-> << >>, sorted_nodes |-> << >>,
           calc |-> calc_init(<< >>)]
     ELSE [error |-> IF s.pc = "IndexError" THEN "IndexError" ELSE None,
           sorted_pods |-> s_pods, sorted_nodes |-> s_nodes, calc |-> s]

\* The next job of `for job in sorted_jobs` up to the test of
\* best_assignment: an uncaught exception ends the process; an empty
\* assignment skips the job; else the commit loop starts.
StartJob ==
  /\ pc = "job"
  /\ sorted_jobs # << >>
  /\ LET plan == plan_job(Head(sorted_jobs), nodes, pods) IN
       /\ sorted_pods' = plan.sorted_pods
       /\ sorted_nodes' = plan.sorted_nodes
       /\ calc' = plan.calc
       /\ IF plan.error # None
          THEN pc' = "crashed" /\ UNCHANGED sorted_jobs
          ELSE IF plan.calc.best_assignment = << >>
          THEN pc' = "job" /\ sorted_jobs' = Tail(sorted_jobs)
          ELSE pc' = "commit" /\ UNCHANGED sorted_jobs
  /\ i' = 0
  /\ UNCHANGED << filterVars, tickVars, cluster_pods, cluster_nodes, pod_order,
                  removals, gates, gate, pods, nodes, pods_to_schedule,
                  read_pod, commits >>

\* commit_next_pc with the ApiException of schedule_pod_on_node left to the
\* handler around the loop of run_scheduling_loop.
commit_next_pc_uncaught(result, idx, n) ==
  IF result = "TypeError" THEN "crashed"
  ELSE IF result = "read" THEN "replace"
  ELSE IF result = "ApiException" THEN "exited"
  ELSE IF idx + 1 < n THEN "commit"
  ELSE "job"

\* Where the code continues after a call of schedule_pod_on_node for
\* sorted_pods[idx] of n pods: after the read of a pod with the gate, the
\* replace; an ApiException was caught inside schedule_pod_on_node, any
\* other exception ends the process.
commit_next_pc(result, idx, n) ==
  IF result = "TypeError" THEN "crashed"
  ELSE IF result = "read" THEN "replace"
  ELSE IF idx + 1 < n THEN "commit"
  ELSE "job"

\* The entry of the commit loop for sorted_pods[i], as `commits` records it.
commit_entry(result) ==
  LET pod == PyIndex(sorted_pods, i)
      node == PyIndex(sorted_nodes, PyIndex(calc.best_assignment, i))
  IN [ name |-> pod.name, job_name |-> pod.job_name, index |-> pod.index,
       creation_time |-> pod.creation_time, node |-> node.name,
       result |-> result ]

\* One pass of the commit loop up to the replace: schedule_pod_on_node for
\* sorted_pods[i] calls read_namespaced_pod and tests the gates of the pod
\* it read. Without a replace to make, the call is over.
ReadPod ==
  /\ pc = "commit"
  /\ \E api \in ApiOutcomes :
       LET held == cluster_pods[PyIndex(sorted_pods, i).name]
           result == read_pod_result(held, gate, api)
       IN /\ pc' = commit_next_pc(result, i, Len(sorted_pods))
          /\ IF result = "read"
             THEN /\ read_pod' = << held >>
                  /\ UNCHANGED << commits, tick_clean >>
             ELSE /\ read_pod' = << >>
                  /\ commits' = Append(commits, commit_entry(result))
                  /\ tick_clean' = IF track_ticks THEN FALSE ELSE tick_clean
          /\ i' = IF pc' \in {"commit", "job"} THEN i + 1 ELSE i
          /\ sorted_jobs' = IF pc' = "job" THEN Tail(sorted_jobs)
                            ELSE sorted_jobs
  /\ UNCHANGED << track_ticks, last_tick_clean >>
  /\ UNCHANGED << filterVars, assignVars, cluster_pods, cluster_nodes, pod_order,
                  removals, gates, gate, pods, nodes, pods_to_schedule >>

\* The rest of the pass: replace_namespaced_pod with the pod that was read,
\* its affinity and gates set.
Commit ==
  /\ pc = "replace"
  /\ \E api \in ApiOutcomes :
       LET pod == PyIndex(sorted_pods, i)
           node == PyIndex(sorted_nodes, PyIndex(calc.best_assignment, i))
           r == replace_pod_result(read_pod[1], cluster_pods[pod.name], node,
                                   gate, api)
       IN /\ cluster_pods' = [cluster_pods EXCEPT ![pod.name] = r.pod]
          /\ commits' = Append(commits, commit_entry(r.result))
          /\ pc' = commit_next_pc(r.result, i, Len(sorted_pods))
          /\ i' = IF pc' \in {"commit", "job"} THEN i + 1 ELSE i
          /\ sorted_jobs' = IF pc' = "job" THEN Tail(sorted_jobs)
                            ELSE sorted_jobs
          /\ tick_clean' = IF track_ticks
                           THEN tick_clean /\ r.result = "written"
                           ELSE tick_clean
  /\ read_pod' = << >>
  /\ UNCHANGED << track_ticks, last_tick_clean >>
  /\ UNCHANGED << filterVars, assignVars, cluster_nodes, pod_order, removals, gates, gate,
                  pods, nodes, pods_to_schedule >>

\* schedule_pod_with_gate returns: the next gate, or the next pass of the
\* loop when the gates are done.
EndGate ==
  /\ pc = "job"
  /\ sorted_jobs = << >>
  /\ pc' = IF gates = {} THEN "tick" ELSE "gate"
  /\ IF track_ticks /\ gates = {}
     THEN last_tick_clean' = tick_clean /\ tick_clean' = TRUE
     ELSE UNCHANGED << tick_clean, last_tick_clean >>
  /\ UNCHANGED track_ticks
  /\ UNCHANGED << filterVars, assignVars, cluster_pods, cluster_nodes, pod_order, removals,
                  gates, gate, pods, nodes, pods_to_schedule, sorted_jobs, i,
                  read_pod, commits >>

\* Another actor (a user, a controller) replaces a pod with one of its
\* scheduling gates removed.
OtherActorRemovesGate ==
  /\ removals < MaxRemovals
  /\ pc \notin {"exited", "crashed"}
  /\ \E p \in PodNames :
       \E g \in Range(cluster_pods[p].scheduling_gates) :
         cluster_pods' =
           [cluster_pods EXCEPT ![p].scheduling_gates =
                                  SelectSeq(@, LAMBDA h : h # g)]
  /\ removals' = removals + 1
  /\ IF track_ticks
     THEN tick_clean' = FALSE /\ last_tick_clean' = FALSE
     ELSE UNCHANGED << tick_clean, last_tick_clean >>
  /\ UNCHANGED track_ticks
  /\ UNCHANGED << filterVars, assignVars, cluster_nodes, pod_order, pc, gates, gate, pods,
                  nodes, pods_to_schedule, sorted_jobs, i, read_pod, commits >>

Next ==
  \/ TickListFails
  \/ Tick
  \/ GateListFails
  \/ ListGatePods
  \/ StartGate
  \/ StartJob
  \/ ReadPod
  \/ Commit
  \/ EndGate
  \/ OtherActorRemovesGate

Spec == Init /\ [][Next]_vars

\* SpecTicks: the control loop with the history of its passes recorded, for
\* two jobs created at the same time (the listing order decides which job
\* comes first).
TicksInit ==
  /\ LoopInit
  /\ \A p \in PodNames : cluster_pods[p].creation_timestamp = 1
  /\ track_ticks = TRUE

SpecTicks == TicksInit /\ [][Next]_vars

\* ------------------------------------------------------------------------
\* SpecNodes: find_schedulable_nodes, the topology sort and
\* node_topology_distance on a listing of nodes and pods
\* ------------------------------------------------------------------------
\* Nodes in the result of list_node(), and pods in the listing.
MaxListed == 3
MaxBound == 1

ReadyConditions == << [type |-> "MemoryPressure", status |-> "False"],
                      [type |-> "Ready", status |-> "True"] >>
NotReadyConditions == << [type |-> "MemoryPressure", status |-> "False"],
                         [type |-> "Ready", status |-> "False"] >>

Allocatable == ("cpu" :> 4) @@ ("memory" :> 4) @@ ("nvidia.com/gpu" :> 2)
AllocatableNoGpu == ("cpu" :> 4) @@ ("memory" :> 4)

TaintK1V1 == [key |-> "k1", value |-> "v1"]
TaintK1V2 == [key |-> "k1", value |-> "v2"]
TaintK2V2 == [key |-> "k2", value |-> "v2"]

\* Labels, taints, conditions and allocatable of a listed node: nodes with
\* the full topology 4-tuple at every level of difference, a node without
\* the host label, a node without labels, tainted nodes, a NotReady node.
ListedNodeProfiles ==
  { [labels |-> TopoLabels(0, 0, 0), taints |-> NoneList,
     conditions |-> ReadyConditions, allocatable |-> Allocatable],
    [labels |-> TopoLabels(0, 0, 1), taints |-> << TaintK1V1 >>,
     conditions |-> ReadyConditions, allocatable |-> Allocatable],
    [labels |-> TopoLabels(0, 1, 0), taints |-> << TaintK1V2 >>,
     conditions |-> ReadyConditions, allocatable |-> Allocatable],
    [labels |-> TopoLabels(0, 0, 0), taints |-> NoneList,
     conditions |-> NotReadyConditions, allocatable |-> Allocatable],
    [labels |-> (PG :> 1) @@ (CLUSTER :> 0) @@ (RACK :> 0) @@ (HOST :> 0),
     taints |-> NoneList,
     conditions |-> ReadyConditions, allocatable |-> AllocatableNoGpu],
    [labels |-> (PG :> 0) @@ (CLUSTER :> 0) @@ (RACK :> 0),
     taints |-> NoneList,
     conditions |-> ReadyConditions, allocatable |-> Allocatable],
    [labels |-> << >>, taints |-> NoneList,
     conditions |-> ReadyConditions, allocatable |-> Allocatable],
    [labels |-> TopoLabels(1, 0, 0), taints |-> << TaintK1V1, TaintK2V2 >>,
     conditions |-> ReadyConditions, allocatable |-> Allocatable] }

NodeName(j) == CASE j = 1 -> "n1" [] j = 2 -> "n2" [] j = 3 -> "n3"
                 [] OTHER -> "n4"

\* The node lists list_node() can return: node names are unique.
ListedNodes(m) ==
  { [j \in 1..m |->
       [ name |-> NodeName(j), labels |-> ps[j].labels, taints |-> ps[j].taints,
         conditions |-> ps[j].conditions, allocatable |-> ps[j].allocatable ]] :
      ps \in [1..m -> ListedNodeProfiles] }

\* The tolerations of a job: none, Exists, two with the same key, two keys.
TolerationLists ==
  { NoneList,
    << [key |-> "k1", operator |-> "Exists", value |-> None] >>,
    << [key |-> "k1", operator |-> "Equal", value |-> "v2"], TolerationK1 >>,
    << TolerationK1, TolerationK2 >> }

Container(name, cpu, memory, gpu) ==
  [name |-> name, cpu |-> cpu, memory |-> memory, gpu |-> gpu]

ContainerStatus(name, terminated) == [name |-> name, terminated |-> terminated]

\* Namespace, node, containers and container statuses of a listed pod: a
\* pod bound a moment ago (no status yet), a pod whose helper container has
\* finished (the orchestrator reports the statuses ordered by container
\* name), a pod of another namespace on another node whose second container
\* has finished.
ListedPodProfiles ==
  { [namespace |-> "default", node_name |-> "n1",
     containers |-> << Container("main", 1, 1, 1) >>,
     container_statuses |-> NoneList],
    [namespace |-> "default", node_name |-> "n1",
     containers |-> << Container("worker", 2, 2, 1), Container("agent", 1, 1, 0) >>,
     container_statuses |-> << ContainerStatus("agent", TRUE),
                               ContainerStatus("worker", FALSE) >>],
    [namespace |-> "kube-system", node_name |-> "n2",
     containers |-> << Container("agent", 1, 1, 0), Container("worker", 2, 2, 1) >>,
     container_statuses |-> << ContainerStatus("agent", FALSE),
                               ContainerStatus("worker", TRUE) >>] }

PodName(j) == CASE j = 1 -> "p1" [] j = 2 -> "p2" [] OTHER -> "p3"

ListedPods(n) ==
  { [j \in 1..n |->
       [ name |-> PodName(j), namespace |-> ps[j].namespace,
         job_name |-> None, index |-> None, creation_timestamp |-> 1,
         containers |-> ps[j].containers,
         container_statuses |-> ps[j].container_statuses,
         node_selector |-> NoSelector, tolerations |-> NoneList,
         scheduling_gates |-> NoneList, node_name |-> ps[j].node_name,
         affinity |-> None ]] :
      ps \in [1..n -> ListedPodProfiles] }

NodesInit ==
  /\ \E m \in 0..MaxListed : nodes \in ListedNodes(m)
  /\ \E n \in 0..MaxBound : pods \in ListedPods(n)
  /\ tolerated_taints \in TolerationLists
  /\ nodes_info = << >>
  /\ sorted_nodes = << >>
  /\ distances = << >>
  /\ pc = "nodes"
  /\ sorted_pods = << >>
  /\ calc = calc_init(<< >>)
  /\ cluster_pods = << >>
  /\ cluster_nodes = << >>
  /\ pod_order = << >>
  /\ removals = 0
  /\ gates = {}
  /\ gate = GateX
  /\ pods_to_schedule = << >>
  /\ sorted_jobs = << >>
  /\ i = 0
  /\ read_pod = << >>
  /\ commits = << >>
  /\ track_ticks = FALSE
  /\ tick_clean = TRUE
  /\ last_tick_clean = FALSE

\* nodes_to_schedule = find_schedulable_nodes(nodes, pods, tolerated_taints)
FindSchedulableNodes ==
  /\ pc = "nodes"
  /\ nodes_info' = find_schedulable_nodes(nodes, pods, tolerated_taints)
  /\ pc' = "sort"
  /\ UNCHANGED << assignVars, loopVars_but_pc, tickVars, tolerated_taints,
                  distances >>

\* sorted_nodes = sorted(nodes_to_schedule.values(), key=node_topology_key)
SortNodes ==
  /\ pc = "sort"
  /\ sorted_nodes' = SortedBy(nodes_info,
                              [j \in 1..Len(nodes_info) |->
                                 node_topology_key(nodes_info[j])])
  /\ pc' = "distance"
  /\ UNCHANGED << sorted_pods, calc, loopVars_but_pc, tickVars, filterVars >>

\* node_topology_distance(sorted_nodes[k], sorted_nodes[l]) for l before k,
\* the pairs an assignment can make adjacent.
Distances ==
  /\ pc = "distance"
  /\ distances' = [k \in 1..Len(sorted_nodes) |->
                     [l \in 1..k - 1 |->
                        node_topology_distance(sorted_nodes[k], sorted_nodes[l])]]
  /\ pc' = "planned"
  /\ UNCHANGED << assignVars, loopVars_but_pc, tickVars, tolerated_taints,
                  nodes_info >>

NodesNext == FindSchedulableNodes \/ SortNodes \/ Distances

SpecNodes == NodesInit /\ [][NodesNext]_vars

\* ------------------------------------------------------------------------
\* Properties of calculate_pods_assignment (SpecAssign)
\* ------------------------------------------------------------------------
NumPods == Len(sorted_pods)
NumNodes == Len(sorted_nodes)

\* Strictly increasing sequences of n indices in 0..m-1.
IncreasingSeqs(n, m) ==
  { a \in [1..n -> 0..m - 1] : \A k \in 1..n - 1 : a[k] < a[k + 1] }

\* The strictly increasing index sequences in which every pod i can be
\* scheduled on node a[i].
FeasibleAssignments ==
  { a \in IncreasingSeqs(NumPods, NumNodes) :
      \A k \in 1..NumPods : can_schedule(sorted_nodes[a[k] + 1], sorted_pods[k]) }

\* Sum of node_topology_distance between the nodes of consecutive pods.
RECURSIVE CostFrom(_, _)
CostFrom(a, k) ==
  IF k >= Len(a) THEN 0
  ELSE node_topology_distance(sorted_nodes[a[k + 1] + 1], sorted_nodes[a[k] + 1])
       + CostFrom(a, k + 1)

Cost(a) == CostFrom(a, 1)

Returned == calc.pc = "done"

\* C1: for N pods and M >= N topology-sorted nodes, the returned assignment
\* has the minimum cost among all strictly increasing index sequences in
\* which every pod i can be scheduled on node a[i].
C1_MinimumCost ==
  (Returned /\ NumNodes >= NumPods /\ calc.best_assignment # << >>)
    => \A a \in FeasibleAssignments : Cost(calc.best_assignment) <= Cost(a)

\* C2: the returned assignment is empty only when no strictly increasing
\* feasible index sequence exists; whenever one exists, a complete
\* assignment of all N pods is returned.
C2_EmptyOnlyIfInfeasible ==
  Returned =>
    /\ (calc.best_assignment = << >>) => (FeasibleAssignments = {})
    /\ (FeasibleAssignments # {}) => Len(calc.best_assignment) = NumPods

\* C3: every non-empty best assignment is a strictly increasing sequence of
\* N indices in 0..M-1 into the topology-sorted node list; so its nodes are
\* pairwise distinct and their topology keys are non-decreasing.
C3_StrictlyIncreasing ==
  LET b == calc.best_assignment IN
  b # << >> =>
    /\ Len(b) = NumPods
    /\ \A k \in 1..Len(b) : b[k] \in 0..NumNodes - 1
    /\ \A k \in 1..Len(b) - 1 : b[k] < b[k + 1]
    /\ \A k, l \in 1..Len(b) :
         k # l => sorted_nodes[b[k] + 1].name # sorted_nodes[b[l] + 1].name
    /\ \A k \in 1..Len(b) - 1 :
         TupleLeq(node_topology_key(sorted_nodes[b[k] + 1]),
                  node_topology_key(sorted_nodes[b[k + 1] + 1]))

\* A returned assignment of several pods that leaves a gap between two
\* chosen nodes.
C3_Witness ==
  /\ Returned
  /\ Len(calc.best_assignment) >= 2
  /\ \E k \in 1..Len(calc.best_assignment) - 1 :
       calc.best_assignment[k + 1] > calc.best_assignment[k] + 1

\* C4: for every pair (sorted_pods[i], sorted_nodes[a[i]]) of the best
\* assignment, the node's free cpu, memory and gpu are each >= the pod's
\* request and every key/value pair of the pod's node_selector is among the
\* node's labels.
C4_AssignmentFeasible ==
  LET b == calc.best_assignment IN
  \A k \in 1..Len(b) :
    LET node == sorted_nodes[b[k] + 1]
        pod == sorted_pods[k]
    IN /\ b[k] \in 0..NumNodes - 1
       /\ node.cpu >= pod.cpu
       /\ node.memory >= pod.memory
       /\ node.gpu >= pod.gpu
       /\ \A key \in DOMAIN pod.node_selector :
            /\ key \in DOMAIN node.node_labels
            /\ node.node_labels[key] = pod.node_selector[key]

\* A returned assignment in which pods with different requests and a
\* node_selector were placed, while some node could not take some pod.
C4_Witness ==
  /\ Returned
  /\ Len(calc.best_assignment) >= 2
  /\ \E k \in 1..NumPods : DOMAIN sorted_pods[k].node_selector # {}
  /\ \E k \in 1..NumPods : sorted_pods[k].gpu = 2
  /\ \E k \in 1..NumPods, j \in 1..NumNodes :
       ~can_schedule(sorted_nodes[j], sorted_pods[k])


\* ------------------------------------------------------------------------
\* Properties of the control loop (Spec)
\* ------------------------------------------------------------------------
\* The calls of schedule_pod_on_node of the current run that wrote the pod.
Written == { c \in 1..Len(commits) : commits[c].result = "written" }

\* The step ends a call of schedule_pod_on_node with the given result.
Committed(result) ==
  /\ pc \in {"commit", "replace"}
  /\ Len(commits') = Len(commits) + 1
  /\ commits'[Len(commits')].result = result

JobNames == { pods_to_schedule[j].job_name : j \in 1..Len(pods_to_schedule) }

\* The gated pods of a job, in dict order.
PodsOfJob(job_name) ==
  SelectSeq(pods_to_schedule, LAMBDA p : p.job_name = job_name)

\* The pods of a job schedule_pod_on_node was called for in this run.
Attempted(job_name) ==
  { commits[c].name : c \in { d \in 1..Len(commits) :
                               commits[d].job_name = job_name } }

\* schedule_pod_with_gate has returned.
RunReturned == pc \in {"tick", "gate"}

\* C5: in one run of schedule_pod_with_gate each job is all-or-nothing: if
\* no assignment is found for the job, no pod of it is committed; otherwise a
\* commit is attempted for every pod of the job.
C5_AllOrNothing ==
  RunReturned =>
    \A job_name \in JobNames :
      LET job == PodsOfJob(job_name)
          plan == plan_job(job, nodes, pods)
      IN plan.error = None =>
           IF plan.calc.best_assignment = << >>
           THEN Attempted(job_name) = {}
           ELSE Attempted(job_name) = { job[j].name : j \in 1..Len(job) }

\* C6: within one run, the pod writes of a job with an earlier creation time
\* all come before the pod writes of a job with a later creation time, and
\* the writes of one job come in pod-sort order.
C6_AdmissionOrder ==
  \A c1, c2 \in Written :
    c1 < c2 =>
      /\ commits[c1].creation_time <= commits[c2].creation_time
      /\ commits[c1].job_name = commits[c2].job_name
           => int_of(commits[c1].index) < int_of(commits[c2].index)

\* C7: when schedule_pod_on_node writes a pod, the written pod has exactly
\* the target gate removed from its gate list, every other gate remaining in
\* the original order, and its node affinity allows only the hostname of the
\* chosen node; nothing else of the pod and no other pod changes.
C7_WriteRemovesOnlyTargetGate ==
  [][ Committed("written") =>
        LET c == commits'[Len(commits')]
            old == cluster_pods[c.name]
            new == cluster_pods'[c.name]
        IN /\ \E j \in 1..Len(old.scheduling_gates) :
                /\ old.scheduling_gates[j] = gate
                /\ new.scheduling_gates =
                     SubSeq(old.scheduling_gates, 1, j - 1)
                       \o SubSeq(old.scheduling_gates, j + 1,
                                 Len(old.scheduling_gates))
           /\ new.affinity = c.node
           /\ c.node = PyIndex(sorted_nodes, PyIndex(calc.best_assignment, i)).name
           /\ c.name = PyIndex(sorted_pods, i).name
           /\ new = [old EXCEPT !.scheduling_gates = new.scheduling_gates,
                                !.affinity = new.affinity]
           /\ \A p \in PodNames \ {c.name} : cluster_pods'[p] = cluster_pods[p]
    ]_vars

\* A pod that carried two gates with the daemon's prefix and a pod that
\* carried a gate without it were written: each keeps its other gate.
C7_Witness ==
  /\ \E c \in Written :
       /\ commits[c].name = "a-0"
       /\ cluster_pods["a-0"].scheduling_gates = << OtherGate >>
       /\ cluster_pods["a-0"].affinity = commits[c].node
  /\ \E c \in Written :
       /\ commits[c].name = "b-0"
       /\ gate = GateX
       /\ cluster_pods["b-0"].scheduling_gates = << GateY >>

\* C8: when the re-read or the replace of a pod fails with an API error,
\* schedule_pod_on_node returns normally: the pod is left as it was (its gate
\* is not removed), the loop goes on with the next pod of the job or with the
\* next job, and a later run of schedule_pod_with_gate for a gate considers
\* every pod that then carries the gate.
C8_ApiErrorIsSkipped ==
  [][ /\ Committed("ApiException") =>
           /\ cluster_pods' = cluster_pods
           /\ i' = i + 1
           /\ IF i + 1 < Len(sorted_pods)
              THEN pc' = "commit" /\ sorted_jobs' = sorted_jobs
              ELSE pc' = "job" /\ sorted_jobs' = Tail(sorted_jobs)
      /\ (pc = "schedule" /\ pc' = "job") =>
           \A p \in PodNames :
             gate' \in Range(cluster_pods[p].scheduling_gates) =>
               \E j \in 1..Len(pods_to_schedule') :
                 pods_to_schedule'[j].name = p
    ]_vars

\* A commit of the first pod of a job failed, the pod still carries the
\* gate, and the second pod of the job was written after it.
C8_Witness ==
  \E c1, c2 \in 1..Len(commits) :
    /\ c1 < c2
    /\ commits[c1].result = "ApiException"
    /\ commits[c1].job_name = commits[c2].job_name
    /\ commits[c2].result = "written"
    /\ gate \in Range(cluster_pods[commits[c1].name].scheduling_gates)

\* C9: a failed orchestrator call during a tick (listing namespaces, pods or
\* nodes) does not stop the control loop: run_scheduling_loop never returns.
C9_LoopKeepsRunning == pc # "exited"

\* The pods of a job do not all have the same tolerations.
TolerationsDiffer(job) ==
  \E j, l \in 1..Len(job) : job[j].tolerations # job[l].tolerations

\* C10: when the pods of a job have differing tolerations, the job is
\* skipped without a placement and without a pod write, and the loop goes on
\* with the next job.
C10_DifferingTolerationsSkipJob ==
  [][ (StartJob /\ TolerationsDiffer(Head(sorted_jobs))) =>
        /\ pc' = "job"
        /\ sorted_jobs' = Tail(sorted_jobs)
        /\ cluster_pods' = cluster_pods
    ]_vars

\* ------------------------------------------------------------------------
\* Properties of successive passes of the loop (Spec)
\* ------------------------------------------------------------------------
\* C11: if a pass of the loop completes with every schedule_pod_on_node
\* having written its pod, and no other actor changes a pod, the next pass
\* writes no pod: while last_tick_clean holds, the commits of a run of
\* schedule_pod_with_gate contain no write.
C11_RetickWritesNothing ==
  (pc \in {"job", "commit", "replace"} /\ Written # {}) => ~last_tick_clean

\* A second pass after a clean pass that wrote a pod: it found a gated pod,
\* ran schedule_pod_with_gate over its jobs and called schedule_pod_on_node
\* for none.
C11_Witness ==
  /\ last_tick_clean
  /\ tick_clean
  /\ pc = "job"
  /\ sorted_jobs = << >>
  /\ pods_to_schedule # << >>
  /\ commits = << >>
  /\ \E p \in PodNames : cluster_pods[p].affinity # None

\* ------------------------------------------------------------------------
\* Properties of find_schedulable_nodes and node_topology_distance
\* (SpecNodes)
\* ------------------------------------------------------------------------
\* find_schedulable_nodes has returned.
Filtered == pc \in {"sort", "distance", "planned"}

\* The names of the nodes in the output of find_schedulable_nodes.
OutputNames == { nodes_info[k].name : k \in 1..Len(nodes_info) }

FourLabels == {PG, CLUSTER, RACK, HOST}

\* The node has a Ready condition, and its status is True.
IsReady(node) ==
  /\ \E c \in 1..Len(node.conditions) :
       node.conditions[c].type = "Ready" /\ node.conditions[c].status = "True"
  /\ \A c \in 1..Len(node.conditions) :
       node.conditions[c].type = "Ready" => node.conditions[c].status = "True"

\* C12: find_schedulable_nodes skips a NotReady node individually: every
\* listed node that has the topology labels, only tolerated taints and a
\* Ready condition with status True is in the output, wherever it stands in
\* the list relative to a NotReady node.
C12_NotReadySkippedIndividually ==
  Filtered =>
    \A j \in 1..Len(nodes) :
      ( /\ FourLabels \subseteq DOMAIN nodes[j].labels
        /\ ~taint_not_tolerated(nodes[j].taints, tolerated_taints)
        /\ IsReady(nodes[j]) )
        => nodes[j].name \in OutputNames

\* C13: every node in the output of find_schedulable_nodes carries all four
\* topology labels, so every node passed to the topology sort and to
\* node_topology_distance has a full 4-tuple key.
C13_OutputHasFourLabels ==
  /\ \A k \in 1..Len(nodes_info) :
       FourLabels \subseteq DOMAIN nodes_info[k].node_labels
  /\ \A k \in 1..Len(sorted_nodes) :
       Len(node_topology_key(sorted_nodes[k])) = 4

\* The toleration matches the taint: same key and, for operator Equal, same
\* value.
Tolerates(toleration, taint) ==
  /\ toleration.key = taint.key
  /\ toleration.operator = "Equal" => toleration.value = taint.value

\* The listed node a candidate record was built from.
ListedNode(name) == nodes[CHOOSE j \in 1..Len(nodes) : nodes[j].name = name]

\* C14: a node is in the output of find_schedulable_nodes only if every
\* taint on it has a toleration of the job with the same key and, when the
\* toleration's operator is Equal, the same value; so no candidate a pod can
\* be pinned to has a taint the job does not tolerate.
C14_OutputTaintsTolerated ==
  \A name \in OutputNames \cup { sorted_nodes[k].name : k \in 1..Len(sorted_nodes) } :
    LET taints == ListedNode(name).taints IN
    \A t \in 1..Len(taints) :
      \E l \in 1..Len(tolerated_taints) : Tolerates(tolerated_taints[l], taints[t])

\* Of two listed nodes, both labelled and Ready, one has a taint the job
\* tolerates and is a candidate, the other has a taint whose value the job's
\* Equal toleration does not match and is not.
C14_Witness ==
  /\ pc = "planned"
  /\ \A j \in 1..Len(nodes) :
       PG \in DOMAIN nodes[j].labels /\ IsReady(nodes[j])
  /\ \E j \in 1..Len(nodes) :
       /\ nodes[j].taints # NoneList
       /\ \E k \in 1..Len(sorted_nodes) : sorted_nodes[k].name = nodes[j].name
  /\ \E j \in 1..Len(nodes) :
       /\ nodes[j].name \notin OutputNames
       /\ \E t \in 1..Len(nodes[j].taints), l \in 1..Len(tolerated_taints) :
            /\ tolerated_taints[l].key = nodes[j].taints[t].key
            /\ tolerated_taints[l].operator = "Equal"
            /\ tolerated_taints[l].value # nodes[j].taints[t].value

\* Requests of the containers of a pod whose own container status (the one
\* with the container's name) is not terminated.
RECURSIVE LiveRequests(_, _, _)
LiveRequests(containers, container_statuses, res) ==
  IF containers = << >> THEN 0
  ELSE (IF \E c \in 1..Len(container_statuses) :
             /\ container_statuses[c].name = Head(containers).name
             /\ ~container_statuses[c].terminated
        THEN Head(containers)[res] ELSE 0)
       + LiveRequests(Tail(containers), container_statuses, res)

\* Sum of LiveRequests over the listed pods bound to the node, each pod once.
RECURSIVE BoundRequests(_, _, _)
BoundRequests(listed, node_name, res) ==
  IF listed = << >> THEN 0
  ELSE (IF Head(listed).node_name = node_name
        THEN LiveRequests(Head(listed).containers,
                          Head(listed).container_statuses, res)
        ELSE 0)
       + BoundRequests(Tail(listed), node_name, res)

AllocatableOf(node, res) ==
  IF res \in DOMAIN node.allocatable THEN node.allocatable[res] ELSE 0

\* C15: for every candidate node, the free cpu, memory and gpu equal the
\* node's allocatable minus the sum of the requests of the non-terminated
\* containers of every pod bound to the node, whatever the pod's namespace,
\* each pod counted once.
C15_FreeCapacity ==
  \A k \in 1..Len(nodes_info) :
    LET rec == nodes_info[k]
        node == ListedNode(rec.name)
    IN /\ rec.cpu = AllocatableOf(node, "cpu") - BoundRequests(pods, rec.name, "cpu")
       /\ rec.memory = AllocatableOf(node, "memory")
                         - BoundRequests(pods, rec.name, "memory")
       /\ rec.gpu = AllocatableOf(node, "nvidia.com/gpu")
                      - BoundRequests(pods, rec.name, "gpu")

\* ------------------------------------------------------------------------
\* Properties of one run of schedule_pod_with_gate (Spec)
\* ------------------------------------------------------------------------
\* C16: for any order of the pod listing, schedule_pod_with_gate forms
\* exactly one group per distinct job_name, holding all gated pods of that
\* job, and no two pods of one job are pinned to the same node in the run.
C16_OneGroupPerJob ==
  LET jobs == split_pods_based_on_jobs(pods_to_schedule) IN
  /\ \A j, l \in 1..Len(jobs) :
       j # l => jobs[j][1].job_name # jobs[l][1].job_name
  /\ \A j \in 1..Len(jobs) : jobs[j] = PodsOfJob(jobs[j][1].job_name)
  /\ \A c1, c2 \in Written :
       (c1 # c2 /\ commits[c1].job_name = commits[c2].job_name)
         => commits[c1].node # commits[c2].node

\* C17: if another actor has removed the target gate from a pod between the
\* listing and the re-read of schedule_pod_on_node (the pod may have no gate
\* left at all), the pod is not written, its gates and affinity stay as they
\* are, and scheduling goes on with the remaining pods of the job.
C17_GateGoneMeansNoWrite ==
  [][ ( /\ pc \in {"commit", "replace"}
        /\ Len(commits') = Len(commits) + 1
        /\ gate \notin Range(cluster_pods[commits'[Len(commits')].name]
                               .scheduling_gates) )
      => /\ cluster_pods' = cluster_pods
         /\ i' = i + 1
         /\ IF i + 1 < Len(sorted_pods)
            THEN pc' = "commit" /\ sorted_jobs' = sorted_jobs
            ELSE pc' = "job" /\ sorted_jobs' = Tail(sorted_jobs)
    ]_vars

\* C18: within one run of schedule_pod_with_gate every job sees the same
\* node and pod snapshot: the free capacity computed for a job is the
\* snapshot's allocatable minus the requests of the snapshot's bound pods,
\* whatever was committed for earlier jobs of the run, so two jobs may be
\* pinned to the same node. At the commit loop sorted_nodes holds the
\* candidates computed for the current job.
C18_SameSnapshotForEveryJob ==
  pc \in {"commit", "replace"} =>
    \A k \in 1..Len(sorted_nodes) :
      LET rec == sorted_nodes[k]
          node == ListedNode(rec.name)
      IN /\ rec.cpu = AllocatableOf(node, "cpu")
                        - BoundRequests(pods, rec.name, "cpu")
         /\ rec.memory = AllocatableOf(node, "memory")
                           - BoundRequests(pods, rec.name, "memory")
         /\ rec.gpu = AllocatableOf(node, "nvidia.com/gpu")
                        - BoundRequests(pods, rec.name, "gpu")

\* Two jobs of one run were pinned to the same node, whose single gpu each
\* of the two pods requests.
C18_Witness ==
  \E c1, c2 \in Written :
    /\ c1 < c2
    /\ commits[c1].job_name # commits[c2].job_name
    /\ commits[c1].node = commits[c2].node
    /\ \A j \in 1..Len(nodes) :
         nodes[j].name = commits[c1].node
           => nodes[j].allocatable["nvidia.com/gpu"] = 1

\* ------------------------------------------------------------------------
\* Properties of node_topology_distance (SpecNodes)
\* ------------------------------------------------------------------------
\* The first coordinate (0-based) at which two different 4-tuples differ.
FirstDiff(k1, k2) ==
  CHOOSE d \in 0..3 :
    /\ k1[d + 1] # k2[d + 1]
    /\ \A e \in 0..d - 1 : k1[e + 1] = k2[e + 1]

RECURSIVE Pow10(_)
Pow10(e) == IF e = 0 THEN 1 ELSE 10 * Pow10(e - 1)

\* The pairs <<k, l>>, l before k, of sorted nodes with a full 4-tuple key.
FullPairs ==
  { p \in (1..Len(sorted_nodes)) \X (1..Len(sorted_nodes)) :
      /\ p[2] < p[1]
      /\ Len(node_topology_key(sorted_nodes[p[1]])) = 4
      /\ Len(node_topology_key(sorted_nodes[p[2]])) = 4 }

KeyOf(k) == node_topology_key(sorted_nodes[k])

\* C19: node_topology_distance of two 4-tuple keys is 0 when the keys are
\* equal and otherwise 10^(6-2i), i the first differing coordinate; so a
\* pair that first differs at a deeper level costs strictly less than a pair
\* that first differs at a shallower level.
C19_DistanceLaw ==
  pc = "planned" =>
    /\ \A p \in FullPairs :
         distances[p[1]][p[2]] =
           IF KeyOf(p[1]) = KeyOf(p[2]) THEN 0
           ELSE Pow10(6 - 2 * FirstDiff(KeyOf(p[1]), KeyOf(p[2])))
    /\ \A p, q \in FullPairs :
         ( /\ KeyOf(p[1]) # KeyOf(p[2])
           /\ KeyOf(q[1]) # KeyOf(q[2])
           /\ FirstDiff(KeyOf(p[1]), KeyOf(p[2])) > FirstDiff(KeyOf(q[1]), KeyOf(q[2])) )
           => distances[p[1]][p[2]] < distances[q[1]][q[2]]

\* Three candidates: two on hosts of one rack (distance 1), the third in
\* another cluster (distance 10000 from both).
C19_Witness ==
  /\ pc = "planned"
  /\ Len(sorted_nodes) = 3
  /\ distances[2][1] = 1
  /\ distances[3][1] = 10000
  /\ distances[3][2] = 10000

\* ------------------------------------------------------------------------
\* Termination of calculate_pods_assignment (SpecAssignFair)
\* ------------------------------------------------------------------------
\* C20: calculate_pods_assignment terminates for every N >= 1 pods, every
\* M >= 0 nodes (M < N included) and every feasibility relation: no position
\* of the index vector ever decreases, positions left of the last never
\* reach M, and the search stops exactly when the rightmost position
\* reaches M.
C20_SearchTerminates ==
  /\ [][ \A k \in 1..NumPods : calc'.assignment[k] >= calc.assignment[k] ]_vars
  /\ [](\A k \in 1..NumPods - 1 : calc.assignment[k] < NumNodes)
  /\ [](calc.assignment[NumPods] <= NumNodes)
  /\ [](Returned => calc.assignment[NumPods] = NumNodes)
  /\ [](calc.pc = "outer" => calc.assignment[NumPods] < NumNodes)
  /\ <>Returned

\* The search has returned for more pods than nodes, after it had moved the
\* positions left of the last one.
C20_Witness ==
  /\ Returned
  /\ NumPods > NumNodes
  /\ NumNodes >= 1
  /\ \E k \in 1..NumPods - 1 : calc.assignment[k] > k - NumPods - 1

====
